---------------------------- MODULE Spec2Model ----------------------------
(***************************************************************************)
(* flexutils: flex2sr (FLEX binary -> Motorola S-record) and sr2flex       *)
(* (Motorola S-record -> FLEX binary).                                     *)
(*                                                                         *)
(* A file is a sequence of bytes 0..255; text is the sequence of its ASCII *)
(* codes.  A run of a converter is a state machine over main()'s           *)
(* variables: one step per iteration of main's do-while loop (one call of  *)
(* record() and what main does with its result), one step for the header,  *)
(* one for what main does after the loop.                                  *)
(***************************************************************************)
EXTENDS Integers, Sequences, FiniteSets

VARIABLES
  prog,      \* the program that is running: "flex2sr" or "sr2flex"
  stage,     \* "single": a run on a given file; "piped": sr2flex reading flex2sr's
             \* output; "late": flex2sr met in its loop far into a long run
  elided,    \* how many S1 lines of the run were written before outfile begins
  fname,     \* basename(argv[1]) of flex2sr, as a sequence of characters
  items,     \* how the test input was put together (never read by the programs)
  cut,       \* how many bytes were cut off its end (never read by the programs)
  infile,    \* the bytes of the input file
  pos,       \* the read position of infile (what ftell reports)
  outfile,   \* the bytes written to the output file so far
  rectype,   \* main's rectype
  datarecs,  \* flex2sr main's datarecs
  addrrecs,  \* flex2sr main's addrrecs
  pc,        \* where main is: "header", "loop", "after", "done", "spin", "abort"
  status,    \* the exit status: "running", "EXIT_SUCCESS", "EXIT_FAILURE", "SIGNAL"
  tracks,    \* mkflexfs: the global tracks
  sectors,   \* mkflexfs: the global sectors
  volnum,    \* mkflexfs: the global volnum
  volname,   \* mkflexfs: the global volname, as a sequence of characters
  trk,       \* mkflexfs main's trk
  sec        \* mkflexfs main's sec

\* The variables of mkflexfs, which the converters leave alone.
fsvars == <<tracks, sectors, volnum, volname, trk, sec>>

vars == <<prog, stage, elided, fname, items, cut, infile, pos, outfile, rectype,
          datarecs, addrrecs, pc, status, fsvars>>

(***************************************************************************)
(* Bounds of the model.                                                    *)
(***************************************************************************)
MaxItems == 3      \* records, filler bytes and junk bytes in a FLEX input
MaxSRItems == 2    \* records and filler characters in an S-record input
MaxPayload == 2    \* payload bytes of a generated Data record
MaxCut == 2        \* bytes cut off the end of a generated input
MaxLateItems == 2  \* records and bytes left of the input of a long run
MaxTracks == 3     \* tracks of a disk image
MaxSectors == 6    \* sectors of a track of a disk image

(***************************************************************************)
(* Program constants.                                                      *)
(***************************************************************************)
EOF == -1
FLEX_DATA == 2      \* 0x02
FLEX_XFER == 22     \* 0x16
NUL == 0
LF == 10
CR == 13
chS == 83           \* 'S'
chR == 82           \* 'R'
chC == 67           \* 'C'
ch0 == 48           \* '0'
ch1 == 49           \* '1'
ch5 == 53           \* '5'
ch9 == 57           \* '9'
chA == 65           \* 'A'
chF == 70           \* 'F'

(* The run of 2^32-1 copies of "FFFFFFFF" that flex2sr's payload loop      *)
(* writes when the length byte itself was EOF (nbytes = -1 counts down     *)
(* through every negative int and wraps).  One element of outfile stands   *)
(* for the whole run; it is no byte value.                                 *)
FLOOD == 256

Min(a, b) == IF a < b THEN a ELSE b

(***************************************************************************)
(* C arithmetic.  An int or unsigned int is kept as the integer in         *)
(* -2^31..2^31-1 with the same 32 bits (two's complement), so -1 is also   *)
(* 0xFFFFFFFF.                                                             *)
(***************************************************************************)
RECURSIVE BitAnd(_, _)
BitAnd(a, b) ==
  IF a = 0 \/ b = 0 THEN 0
  ELSE IF a = -1 THEN b
  ELSE IF b = -1 THEN a
  ELSE 2 * BitAnd(a \div 2, b \div 2) + (IF a % 2 = 1 /\ b % 2 = 1 THEN 1 ELSE 0)

RECURSIVE BitOr(_, _)
BitOr(a, b) ==
  IF a = 0 THEN b
  ELSE IF b = 0 THEN a
  ELSE IF a = -1 \/ b = -1 THEN -1
  ELSE 2 * BitOr(a \div 2, b \div 2) + (IF a % 2 = 1 \/ b % 2 = 1 THEN 1 ELSE 0)

BitNot(a) == -1 - a

Shl8(a) == a * 256

Shr8(a) == a \div 256

(***************************************************************************)
(* stdio.                                                                  *)
(***************************************************************************)
\* fgetc(f) at position p: the next byte and the new position, or EOF.
fgetc(f, p) ==
  IF p < Len(f) THEN [c |-> f[p + 1], pos |-> p + 1]
  ELSE [c |-> EOF, pos |-> p]

\* "0123456789ABCDEF"
HexChars == <<48, 49, 50, 51, 52, 53, 54, 55, 56, 57, 65, 66, 67, 68, 69, 70>>

RECURSIVE NumHexDigits(_)
NumHexDigits(u) == IF u < 16 THEN 1 ELSE 1 + NumHexDigits(u \div 16)

\* The k-th hex digit (k = 0 is the lowest) of the 32 bits of x.
Nibble(x, k) ==
  LET RECURSIVE Down(_, _)
      Down(y, j) == IF j = 0 THEN y % 16 ELSE Down(y \div 16, j - 1)
  IN  Down(x, k)

\* printf("%0wX", x): x printed as an unsigned int in upper-case hex, padded
\* with zeroes to at least w digits and never cut.
FmtX(x, w) ==
  LET n == IF x < 0 THEN 8 ELSE NumHexDigits(x)
      m == IF n < w THEN w ELSE n
  IN  [i \in 1..m |-> HexChars[Nibble(x, m - i) + 1]]

(***************************************************************************)
(* flex2sr                                                                 *)
(***************************************************************************)
\* One read that takes a zero for a record type.
SkipZeroes_once(f, p) == fgetc(f, p)

\* do { rectype = fgetc(infile); } while (rectype == 0x00);
RECURSIVE SkipZeroes(_, _)
SkipZeroes(f, p) ==
  LET r == fgetc(f, p)
  IN  IF r.c = 0 THEN SkipZeroes(f, r.pos) ELSE r

\* Rounds lo..hi of  while (nbytes--) { c = fgetc(infile); chksum += c;
\* fprintf(outfile, "%02X", c); }  entered at position p: what they add to
\* chksum and what they print.  Round k reads the byte at p + k, or EOF at
\* the end of the file.
F2S_round(f, p, k) ==
  LET r == fgetc(f, Min(p + k - 1, Len(f)))
  IN  [sum |-> r.c, out |-> FmtX(r.c, 2)]

F2S_join(a, b) == [sum |-> a.sum + b.sum, out |-> a.out \o b.out]

RECURSIVE F2S_bytes(_, _, _, _)
F2S_bytes(f, p, lo, hi) ==
  IF lo > hi THEN [sum |-> 0, out |-> <<>>]
  ELSE IF lo = hi THEN F2S_round(f, p, lo)
  ELSE F2S_join(F2S_bytes(f, p, lo, (lo + hi) \div 2),
                F2S_bytes(f, p, (lo + hi) \div 2 + 1, hi))

F2S_after(p, chksum, out, b, newpos) ==
  [pos |-> newpos, chksum |-> chksum + b.sum, out |-> out \o b.out, ub |-> FALSE]

\* while (nbytes--) { c = fgetc(infile); chksum += c; fprintf(outfile, "%02X", c); }
\* With nbytes < 0 (the length byte was EOF) the countdown passes through
\* every negative int: each of its 2^32 + nbytes rounds reads EOF, adds -1 to
\* chksum and prints FFFFFFFF; "ub" says that the countdown overflowed int.
F2S_payload(f, p, nbytes, chksum, out) ==
  IF nbytes < 0
    THEN [pos |-> p, chksum |-> chksum - nbytes, out |-> out \o <<FLOOD>>, ub |-> TRUE]
  ELSE F2S_after(p, chksum, out, F2S_bytes(f, p, 1, nbytes), Min(p + nbytes, Len(f)))

\* fprintf(outfile, "%02X\n", ~chksum & 0xFF);
F2S_chkline(chksum) == FmtX(BitAnd(BitNot(chksum), 255), 2) \o <<LF>>

\* int record(FILE *infile, FILE *outfile) of flex2sr, called at position p:
\* the value returned, the new position and the bytes written.
F2S_record(f, p) ==
  LET t == SkipZeroes(f, p)
      a1 == fgetc(f, t.pos)
      a2 == fgetc(f, a1.pos)
      loadaddr == BitOr(Shl8(a1.c), a2.c)
      chk0 == a1.c + a2.c
      n == fgetc(f, a2.pos)
      body == F2S_payload(f, n.pos, n.c, chk0 + n.c + 3,
                          <<chS, ch1>> \o FmtX(n.c + 3, 2) \o FmtX(loadaddr, 4))
  IN  IF t.c # FLEX_DATA /\ t.c # FLEX_XFER
        THEN [ret |-> t.c, pos |-> t.pos, out |-> <<>>, ub |-> FALSE]
      ELSE IF t.c = FLEX_DATA
        THEN [ret |-> t.c, pos |-> body.pos,
              out |-> body.out \o F2S_chkline(body.chksum), ub |-> body.ub]
      ELSE [ret |-> t.c, pos |-> a2.pos,
            out |-> <<chS, ch9, ch0, 51>> \o FmtX(loadaddr, 4) \o F2S_chkline(chk0 + 3),
            ub |-> FALSE]

\* The sum of the characters of str, as header's chksum += *str++ adds them.
RECURSIVE SumSeq(_)
SumSeq(s) ==
  IF s = <<>> THEN 0
  ELSE IF Len(s) = 1 THEN s[1]
  ELSE SumSeq(SubSeq(s, 1, Len(s) \div 2)) + SumSeq(SubSeq(s, Len(s) \div 2 + 1, Len(s)))

\* The characters of str printed one after the other with "%02X".
RECURSIVE HexAll(_)
HexAll(s) ==
  IF s = <<>> THEN <<>>
  ELSE IF Len(s) = 1 THEN FmtX(s[1], 2)
  ELSE HexAll(SubSeq(s, 1, Len(s) \div 2)) \o HexAll(SubSeq(s, Len(s) \div 2 + 1, Len(s)))

\* void header(FILE *outfile, const char *str)
header(str) ==
  LET count == Len(str) + 3
  IN  <<chS, ch0>> \o FmtX(count, 2) \o <<ch0, ch0, ch0, ch0>>
        \o HexAll(str) \o F2S_chkline(count + SumSeq(str))

\* fprintf(outfile, "S503%04X%02X\n", datarecs, ~(0x03 + ((datarecs >> 8) & 0xFF) + (datarecs & 0xFF)) & 0xFF);
F2S_count(n) ==
  <<chS, ch5, ch0, 51>> \o FmtX(n, 4)
    \o FmtX(BitAnd(BitNot(3 + BitAnd(Shr8(n), 255) + BitAnd(n, 255)), 255), 2) \o <<LF>>

\* "S9030000FC\n"
F2S_nullstart == <<chS, ch9, ch0, 51, ch0, ch0, ch0, ch0, chF, chC, LF>>

\* if (rectype == 0x02) datarecs++;
F2S_datarecs(rt, n) == IF rt = FLEX_DATA THEN n + 1 ELSE n

\* if (rectype == 0x16) addrrecs++;
F2S_addrrecs(rt, n) == IF rt = FLEX_XFER THEN n + 1 ELSE n

\* A loop that is left after its first round.
F2S_again_never(rt) == FALSE

\* } while (rectype == 0x02 || rectype == 0x16);
F2S_again(rt) == rt = FLEX_DATA \/ rt = FLEX_XFER

\* The trailer written whatever ended the loop.
F2S_clean_always(rt) == TRUE

\* if (rectype == EOF)
F2S_clean(rt) == rt = EOF

\* The default S9 record written when a start address record was seen.
F2S_trailer_seen(nd, na) == F2S_count(nd) \o (IF na # 0 THEN F2S_nullstart ELSE <<>>)

\* The trailer main writes after the loop when rectype == EOF.
F2S_trailer(nd, na) == F2S_count(nd) \o (IF na = 0 THEN F2S_nullstart ELSE <<>>)

\* header(outfile, basename(argv[1]));
F2S_Header ==
  /\ prog = "flex2sr" /\ pc = "header"
  /\ outfile' = outfile \o header(fname)
  /\ pc' = "loop"
  /\ UNCHANGED <<fsvars, prog, stage, elided, fname, items, cut, infile, pos, rectype, datarecs, addrrecs, status>>

\* One round of main's do-while loop.  Where the countdown of nbytes
\* overflowed (undefined behaviour) the build either wraps, and record()
\* returns after the flood, or traps inside the loop, before the checksum
\* and the line feed are written.
F2S_Loop ==
  /\ prog = "flex2sr" /\ pc = "loop"
  /\ LET r == F2S_record(infile, pos)
     IN  /\ pos' = r.pos
         /\ \/ /\ outfile' = outfile \o r.out
               /\ rectype' = r.ret
               /\ datarecs' = F2S_datarecs(r.ret, datarecs)
               /\ addrrecs' = F2S_addrrecs(r.ret, addrrecs)
               /\ pc' = IF F2S_again(r.ret) THEN "loop" ELSE "after"
               /\ status' = status
            \/ /\ r.ub
               /\ outfile' = outfile \o SubSeq(r.out, 1, Len(r.out) - 3)
               /\ pc' = "abort"
               /\ status' = "SIGNAL"
               /\ UNCHANGED <<rectype, datarecs, addrrecs>>
  /\ UNCHANGED <<fsvars, prog, stage, elided, fname, items, cut, infile>>

\* if (rectype == EOF) { S5, default S9 } ... return EXIT_SUCCESS
F2S_Trailer ==
  /\ prog = "flex2sr" /\ pc = "after"
  /\ F2S_clean(rectype)
  /\ outfile' = outfile \o F2S_trailer(datarecs, addrrecs)
  /\ pc' = "done"
  /\ status' = "EXIT_SUCCESS"
  /\ UNCHANGED <<fsvars, prog, stage, elided, fname, items, cut, infile, pos, rectype, datarecs, addrrecs>>

\* else { fprintf(stderr, "Unrecognised record type ...") } ... return EXIT_FAILURE
F2S_Unrecognised ==
  /\ prog = "flex2sr" /\ pc = "after"
  /\ ~F2S_clean(rectype)
  /\ pc' = "done"
  /\ status' = "EXIT_FAILURE"
  /\ UNCHANGED <<fsvars, prog, stage, elided, fname, items, cut, infile, pos, outfile, rectype, datarecs, addrrecs>>

\* main() of flex2sr from the header to the return, as a function of the
\* base name and the input file: the output file, the exit status and the
\* last rectype.  r is what the call of record() at the current position gave.
RECURSIVE F2S_rounds(_, _, _, _, _)
F2S_rounds(f, r, out, nd, na) ==
  IF F2S_again(r.ret)
    THEN F2S_rounds(f, F2S_record(f, r.pos), out \o r.out,
                    F2S_datarecs(r.ret, nd), F2S_addrrecs(r.ret, na))
  ELSE IF F2S_clean(r.ret)
    THEN [out |-> out \o r.out \o F2S_trailer(nd, na), status |-> "EXIT_SUCCESS", rectype |-> r.ret]
  ELSE [out |-> out \o r.out, status |-> "EXIT_FAILURE", rectype |-> r.ret]

F2S_main(name, f) == F2S_rounds(f, F2S_record(f, 0), header(name), 0, 0)

(***************************************************************************)
(* sr2flex                                                                 *)
(***************************************************************************)
\* (c >= '0' && c <= '9') || (c >= 'A' && c <= 'F')
IsHexChar(c) == (c >= ch0 /\ c <= ch9) \/ (c >= chA /\ c <= chF)

\* unsigned char finhn(FILE *f).  c is an unsigned char, so EOF is stored as
\* 0xFF, which is no hex digit: at the end of the file the loop reads EOF
\* again and again and never returns ("spin").
RECURSIVE finhn(_, _)
finhn(f, p) ==
  LET r == fgetc(f, p)
      c == r.c % 256
  IN  IF r.c = EOF THEN [spin |-> TRUE, val |-> 0, pos |-> r.pos]
      ELSE IF IsHexChar(c)
        THEN [spin |-> FALSE, val |-> IF c <= ch9 THEN c - ch0 ELSE c + 10 - chA, pos |-> r.pos]
      ELSE finhn(f, r.pos)

\* finhb with the two nibbles put together the wrong way round.
finhb_swapped(h, l) ==
  IF l.spin THEN l
  ELSE [spin |-> FALSE, val |-> BitOr((l.val * 16) % 256, h.val), pos |-> l.pos]

\* unsigned char finhb(FILE *f): result = finhn(f) << 4; result |= finhn(f);
\* h and l are what the two calls of finhn gave.
finhb_join(h, l) ==
  IF l.spin THEN l
  ELSE [spin |-> FALSE, val |-> BitOr((h.val * 16) % 256, l.val), pos |-> l.pos]

finhb_low(f, h) == IF h.spin THEN h ELSE finhb_join(h, finhn(f, h.pos))

finhb(f, p) == finhb_low(f, finhn(f, p))

\* unsigned int finhw(FILE *f): result = finhb(f) << 8; result |= finhb(f);
finhw_join(h, l) ==
  IF l.spin THEN l
  ELSE [spin |-> FALSE, val |-> BitOr(Shl8(h.val), l.val), pos |-> l.pos]

finhw_low(f, h) == IF h.spin THEN h ELSE finhw_join(h, finhb(f, h.pos))

finhw(f, p) == finhw_low(f, finhb(f, p))

\* The do-while at the start of record(): "go" when an 'S' was read, else the
\* value record() returns at once (EOF, or 'S' for anything but NUL, CR, LF).
RECURSIVE S2F_sync(_, _)
S2F_sync(f, p) ==
  LET r == fgetc(f, p)
  IN  IF r.c = EOF THEN [go |-> FALSE, ret |-> EOF, pos |-> r.pos]
      ELSE IF r.c # NUL /\ r.c # CR /\ r.c # LF /\ r.c # chS
        THEN [go |-> FALSE, ret |-> chS, pos |-> r.pos]
      ELSE IF r.c = chS THEN [go |-> TRUE, ret |-> chS, pos |-> r.pos]
      ELSE S2F_sync(f, r.pos)

\* A round that writes nothing.
S2F_round_mute(b, emit) ==
  [spin |-> b.spin, pos |-> b.pos, sum |-> IF b.spin THEN 0 ELSE b.val, out |-> <<>>]

\* One round of  while (nbytes--) { c = finhb(infile); chksum += c;
\* [fputc(c, outfile);] }  given what finhb returned: whether it hung, the
\* new position, what the round adds to chksum and what it writes.
S2F_round(b, emit) ==
  IF b.spin THEN [spin |-> TRUE, pos |-> b.pos, sum |-> 0, out |-> <<>>]
  ELSE [spin |-> FALSE, pos |-> b.pos, sum |-> b.val,
        out |-> IF emit THEN <<b.val>> ELSE <<>>]

\* Rounds a followed by rounds b.
S2F_join(a, b) ==
  [spin |-> b.spin, pos |-> b.pos, sum |-> a.sum + b.sum, out |-> a.out \o b.out]

\* k rounds of the loop entered at position p; the rounds after one that
\* hung never happen.
RECURSIVE S2F_bytes(_, _, _, _)
RECURSIVE S2F_rest(_, _, _, _)
S2F_bytes(f, p, k, emit) ==
  IF k = 0 THEN [spin |-> FALSE, pos |-> p, sum |-> 0, out |-> <<>>]
  ELSE IF k = 1 THEN S2F_round(finhb(f, p), emit)
  ELSE S2F_rest(f, S2F_bytes(f, p, k \div 2, emit), k - k \div 2, emit)

S2F_rest(f, a, k, emit) ==
  IF a.spin THEN a ELSE S2F_join(a, S2F_bytes(f, a.pos, k, emit))

S2F_after(chksum, out, r) ==
  [spin |-> r.spin, pos |-> r.pos, chksum |-> chksum + r.sum, out |-> out \o r.out]

\* while (nbytes--) { c = finhb(infile); chksum += c; [fputc(c, outfile);] }
\* emit is TRUE for an S1 record.  A negative nbytes only moves away from 0:
\* the loop has more rounds ahead than the file has characters, so it ends
\* in finhn's spin at the end of the file.
S2F_payload(f, p, nbytes, chksum, out, emit) ==
  S2F_after(chksum, out,
            S2F_bytes(f, p, IF nbytes < 0 THEN Len(f) + 1 ELSE nbytes, emit))

\* The mask that  chksum & 0xFF != 0xFF  applies to chksum: != binds tighter
\* than &, so it is the int value of (0xFF != 0xFF).
S2F_mask == IF 255 # 255 THEN 1 ELSE 0

\* if (chksum & 0xFF != 0xFF) return 'C';
S2F_badsum(chksum) == BitAnd(chksum, S2F_mask) # 0

\* A loop that goes on after the records that write and no others.
S2F_again_data(rt) == rt = ch1 \/ rt = ch9

\* do { rectype = record(infile, outfile); } while (rectype == '0' || ... '9');
S2F_again(rt) == rt = ch0 \/ rt = ch1 \/ rt = ch5 \/ rt = ch9

\* record() from the trailing checksum on:
\*   chksum += finhb(infile); if (chksum & 0xFF != 0xFF) return 'C'; return rectype;
S2F_finish(f, rt, body) ==
  LET sum == finhb(f, body.pos)
  IN  IF body.spin THEN [spin |-> TRUE, ret |-> rt, pos |-> body.pos, out |-> body.out]
      ELSE IF sum.spin THEN [spin |-> TRUE, ret |-> rt, pos |-> sum.pos, out |-> body.out]
      ELSE [spin |-> FALSE,
            ret |-> IF S2F_badsum(body.chksum + sum.val) THEN chC ELSE rt,
            pos |-> sum.pos, out |-> body.out]

\* An address that is never taken for the null address.
S2F_nulladdr_never(loadaddr) == FALSE

\* if (!loadaddr) break; // Skip null addresses
S2F_nulladdr(loadaddr) == loadaddr = 0

\* if (!nbytes) break; // Skip empty records
S2F_empty(nbytes) == nbytes = 0

\* record() from  switch (rectype)  on, with the count byte c and loadaddr read
\* and the file at position p.
S2F_switch(f, rt, c, loadaddr, p) ==
  LET nbytes == c - 3
      hi == BitAnd(Shr8(loadaddr), 255)
      lo == BitAnd(loadaddr, 255)
      chk0 == c + hi + lo
      skip == [spin |-> FALSE, pos |-> p, chksum |-> chk0, out |-> <<>>]
      body == IF rt = ch1
                THEN IF S2F_empty(nbytes) THEN skip
                     ELSE S2F_payload(f, p, nbytes, chk0,
                                      <<FLEX_DATA, hi, lo, nbytes % 256>>, TRUE)
              ELSE IF rt = ch9
                THEN IF S2F_nulladdr(loadaddr) THEN skip
                     ELSE [skip EXCEPT !.out = <<FLEX_XFER, hi, lo>>]
              ELSE S2F_payload(f, p, nbytes, chk0, <<>>, FALSE)
  IN  IF rt = ch0 \/ rt = ch1 \/ rt = ch5 \/ rt = ch9
        THEN S2F_finish(f, rt, body)
      ELSE [spin |-> FALSE, ret |-> chR, pos |-> p, out |-> <<>>]

\* record() after  rectype = fgetc(infile):  c = finhb(infile); loadaddr = finhw(infile);
S2F_fields(f, rt, p) ==
  LET cnt == finhb(f, p)
      adr == finhw(f, cnt.pos)
  IN  IF cnt.spin THEN [spin |-> TRUE, ret |-> rt, pos |-> cnt.pos, out |-> <<>>]
      ELSE IF adr.spin THEN [spin |-> TRUE, ret |-> rt, pos |-> adr.pos, out |-> <<>>]
      ELSE S2F_switch(f, rt, cnt.val, adr.val, adr.pos)

\* int record(FILE *infile, FILE *outfile) of sr2flex, called at position p:
\* the value returned, the new position and the bytes written; spin when a
\* hex read inside the record met the end of the file.
S2F_record(f, p) ==
  LET s == S2F_sync(f, p)
      t == fgetc(f, s.pos)
  IN  IF ~s.go THEN [spin |-> FALSE, ret |-> s.ret, pos |-> s.pos, out |-> <<>>]
      ELSE S2F_fields(f, t.c, t.pos)

\* One round of main's do-while loop.  When record() does not return, main
\* stays inside it for ever: pc = "spin" has no step.
S2F_Loop ==
  /\ prog = "sr2flex" /\ pc = "loop"
  /\ LET r == S2F_record(infile, pos)
     IN  /\ pos' = r.pos
         /\ outfile' = outfile \o r.out
         /\ rectype' = IF r.spin THEN rectype ELSE r.ret
         /\ pc' = IF r.spin THEN "spin" ELSE IF S2F_again(r.ret) THEN "loop" ELSE "after"
  /\ UNCHANGED <<fsvars, prog, stage, elided, fname, items, cut, infile, datarecs, addrrecs, status>>

\* if (rectype != EOF) { fprintf(stderr, "Error %c before offset ...") } ... return EXIT_FAILURE
S2F_Report ==
  /\ prog = "sr2flex" /\ pc = "after"
  /\ rectype # EOF
  /\ pc' = "done"
  /\ status' = "EXIT_FAILURE"
  /\ UNCHANGED <<fsvars, prog, stage, elided, fname, items, cut, infile, pos, outfile, rectype, datarecs, addrrecs>>

\* return (rectype == EOF) ? EXIT_SUCCESS : EXIT_FAILURE, with rectype == EOF
S2F_Exit ==
  /\ prog = "sr2flex" /\ pc = "after"
  /\ rectype = EOF
  /\ pc' = "done"
  /\ status' = "EXIT_SUCCESS"
  /\ UNCHANGED <<fsvars, prog, stage, elided, fname, items, cut, infile, pos, outfile, rectype, datarecs, addrrecs>>

\* main() of sr2flex from the loop to the return, as a function of the input
\* file: the output file, the exit status ("spin" when record() never
\* returns) and the last rectype.  r is what the call of record() at the
\* current position gave.
RECURSIVE S2F_rounds(_, _, _)
S2F_rounds(f, r, out) ==
  IF r.spin THEN [out |-> out \o r.out, status |-> "spin", rectype |-> r.ret]
  ELSE IF S2F_again(r.ret) THEN S2F_rounds(f, S2F_record(f, r.pos), out \o r.out)
  ELSE [out |-> out \o r.out,
        status |-> IF r.ret = EOF THEN "EXIT_SUCCESS" ELSE "EXIT_FAILURE",
        rectype |-> r.ret]

S2F_main(f) == S2F_rounds(f, S2F_record(f, 0), <<>>)

(***************************************************************************)
(* The inputs of the runs.  An input file is put together from items: each *)
(* item is a record (well formed or not), one filler byte or one stray     *)
(* byte; the programs only ever see the bytes.                             *)
(***************************************************************************)
\* Load and transfer addresses: 0x0000 and 0x12FF.
Addrs == {0, 4863}

\* The payload of a generated record of n bytes: A5, BC, D3, EA, ...
Pattern(n) == [i \in 1..n |-> (165 + 23 * (i - 1)) % 256]

Item(k, a, n, b) == [k |-> k, addr |-> a, len |-> n, bad |-> b]

HiByte(a) == (a \div 256) % 256

LoByte(a) == a % 256

\* FLEX binary items: a 0x00 padding byte, a Data record, a TransferAddress
\* record, a byte 0x7F where a record type is expected.
FlexItems ==
  {Item("pad", 0, 0, FALSE), Item("unk", 0, 0, FALSE)}
    \cup {Item("data", 4863, n, FALSE) : n \in 0..MaxPayload}
    \cup {Item("data", 0, 1, FALSE)}
    \cup {Item("xfer", a, 0, FALSE) : a \in Addrs}

EncodeFlex(it) ==
  IF it.k = "pad" THEN <<0>>
  ELSE IF it.k = "unk" THEN <<127>>
  ELSE IF it.k = "data"
    THEN <<FLEX_DATA, HiByte(it.addr), LoByte(it.addr), it.len>> \o Pattern(it.len)
  ELSE <<FLEX_XFER, HiByte(it.addr), LoByte(it.addr)>>

\* S-record items: S0, S1, S5, S9 and S2 lines with a right or a wrong ("bad")
\* checksum, the first len characters of an S1 line ("frag"), one filler
\* character, one stray character 'X'.
SRTypes == [S0 |-> ch0, S1 |-> ch1, S2 |-> 50, S5 |-> ch5, S9 |-> ch9]

\* The record types that sr2flex takes.
SRRecordKinds == {"S0", "S1", "S5", "S9"}

SRItems ==
  {Item("nul", 0, 0, FALSE), Item("cr", 0, 0, FALSE), Item("lf", 0, 0, FALSE),
   Item("junk", 0, 0, FALSE), Item("S2", 4863, 1, FALSE)}
    \cup {Item("S1", 4863, n, FALSE) : n \in 0..MaxPayload}
    \cup {Item("S9", a, 0, FALSE) : a \in Addrs}
    \cup {Item("S1", 4863, 1, TRUE), Item("S9", 4863, 0, TRUE)}
    \cup {Item("S0", 0, 1, b) : b \in BOOLEAN}
    \cup {Item("S5", 1, 0, b) : b \in BOOLEAN}
    \cup {Item("frag", 4863, n, FALSE) : n \in {1, 2, 4, 8, 10}}

\* The line S<type><count><address><payload><checksum>\n of a record item.
SRLine(k, it) ==
  LET count == it.len + 3
      sum == count + HiByte(it.addr) + LoByte(it.addr) + SumSeq(Pattern(it.len))
      good == 255 - (sum % 256)
      chk == IF it.bad THEN (good + 1) % 256 ELSE good
  IN  <<chS, SRTypes[k]>> \o FmtX(count, 2) \o FmtX(it.addr, 4)
        \o HexAll(Pattern(it.len)) \o FmtX(chk, 2) \o <<LF>>

EncodeSR(it) ==
  IF it.k = "nul" THEN <<NUL>>
  ELSE IF it.k = "cr" THEN <<CR>>
  ELSE IF it.k = "lf" THEN <<LF>>
  ELSE IF it.k = "junk" THEN <<88>>
  ELSE IF it.k = "frag" THEN SubSeq(SRLine("S1", Item("S1", it.addr, 1, FALSE)), 1, it.len)
  ELSE SRLine(it.k, it)

RECURSIVE FlattenFlex(_)
FlattenFlex(its) == IF its = <<>> THEN <<>> ELSE EncodeFlex(Head(its)) \o FlattenFlex(Tail(its))

RECURSIVE FlattenSR(_)
FlattenSR(its) == IF its = <<>> THEN <<>> ELSE EncodeSR(Head(its)) \o FlattenSR(Tail(its))

SeqsUpTo(S, n) == UNION {[1..m -> S] : m \in 0..n}

\* f without its last Min(c, Len(f)) bytes.
CutOff(f, c) == SubSeq(f, 1, Len(f) - Min(c, Len(f)))

\* int tracks = 77, sectors = 15, volnum = 0; char *volname = "";  in a run
\* of one of the converters, which have no such variables, they stay so.
FSIdle ==
  /\ tracks = 77 /\ sectors = 15 /\ volnum = 0 /\ volname = <<>>
  /\ trk = 0 /\ sec = 0

\* Base names of flex2sr's input file: "p.b".
FileNames == {<<112, 46, 98>>}

\* flex2sr started on a FLEX binary.
InitF2S ==
  /\ prog = "flex2sr" /\ stage = "single" /\ elided = 0
  /\ fname \in FileNames
  /\ items \in SeqsUpTo(FlexItems, MaxItems)
  /\ cut \in 0..MaxCut
  /\ infile = CutOff(FlattenFlex(items), cut)
  /\ pos = 0 /\ outfile = <<>>
  /\ rectype = 0 /\ datarecs = 0 /\ addrrecs = 0
  /\ pc = "header" /\ status = "running"
  /\ FSIdle

\* sr2flex started on an S-record file.
InitS2F ==
  /\ prog = "sr2flex" /\ stage = "single" /\ elided = 0
  /\ fname = <<>>
  /\ items \in SeqsUpTo(SRItems, MaxSRItems)
  /\ cut = 0
  /\ infile = FlattenSR(items)
  /\ pos = 0 /\ outfile = <<>>
  /\ rectype = 0 /\ datarecs = 0 /\ addrrecs = 0
  /\ pc = "loop" /\ status = "running"
  /\ FSIdle

Init == InitF2S \/ InitS2F

\* flex2sr in out && sr2flex out back: sr2flex is started on the file that a
\* successful flex2sr wrote.  (A file holding a flood is never fed on.)
Pipe ==
  /\ prog = "flex2sr" /\ stage = "single" /\ pc = "done"
  /\ status = "EXIT_SUCCESS"
  /\ \A i \in 1..Len(outfile) : outfile[i] # FLOOD
  /\ prog' = "sr2flex" /\ stage' = "piped"
  /\ infile' = outfile
  /\ pos' = 0 /\ outfile' = <<>>
  /\ rectype' = 0
  /\ pc' = "loop" /\ status' = "running"
  /\ UNCHANGED <<fsvars, elided, fname, items, cut, datarecs, addrrecs>>

Next ==
  \/ F2S_Header \/ F2S_Loop \/ F2S_Trailer \/ F2S_Unrecognised
  \/ Pipe
  \/ S2F_Loop \/ S2F_Report \/ S2F_Exit

Spec == Init /\ [][Next]_vars

\* Runs of flex2sr alone.
NextF2S == F2S_Header \/ F2S_Loop \/ F2S_Trailer \/ F2S_Unrecognised

SpecF2S == InitF2S /\ [][NextF2S]_vars

\* flex2sr met in main's loop far into a long run, after the Data record
\* that made datarecs what it is: the header and the lines written so far
\* are not held in outfile (elided counts the S1 lines among them), infile is
\* what is left of the input, and pos counts from there.
LateCounts == {65534, 65535, 65536}

InitLate ==
  /\ prog = "flex2sr" /\ stage = "late"
  /\ fname \in FileNames
  /\ items \in SeqsUpTo(FlexItems, MaxLateItems)
  /\ cut \in 0..MaxCut
  /\ infile = CutOff(FlattenFlex(items), cut)
  /\ pos = 0 /\ outfile = <<>>
  /\ rectype = FLEX_DATA
  /\ datarecs \in LateCounts /\ elided = datarecs
  /\ addrrecs \in {0, 1}
  /\ pc = "loop" /\ status = "running"
  /\ FSIdle

NextLate == F2S_Loop \/ F2S_Trailer \/ F2S_Unrecognised

SpecLate == InitLate /\ [][NextLate]_vars

\* flex2sr started on a file that holds one Data record, with a length byte
\* from the whole range of the field, alone or before a byte 0x7F, or such a
\* file without its last bytes.
DataLens == {0, 1, 2, 12, 13, 127, 128, 251, 252, 253, 254, 255}

InitData ==
  /\ prog = "flex2sr" /\ stage = "single" /\ elided = 0
  /\ fname \in FileNames
  /\ \E a \in Addrs, n \in DataLens :
       \/ items = <<Item("data", a, n, FALSE)>>
       \/ items = <<Item("data", a, n, FALSE), Item("unk", 0, 0, FALSE)>>
  /\ cut \in 0..MaxCut
  /\ infile = CutOff(FlattenFlex(items), cut)
  /\ pos = 0 /\ outfile = <<>>
  /\ rectype = 0 /\ datarecs = 0 /\ addrrecs = 0
  /\ pc = "header" /\ status = "running"
  /\ FSIdle

SpecData == InitData /\ [][NextF2S]_vars

\* sr2flex started on a file that begins with one S0, S1, S5 or S9 line,
\* with a count byte from the whole range 0..255 (len is the count less 3,
\* and the number of payload bytes the line holds), alone or before a
\* well-formed S9 line.
RecLens == {-3, -2, -1, 0, 1, 2, 3, 125, 252}

RecAddrs == {0, 255, 256, 4863, 65535}

InitRec ==
  /\ prog = "sr2flex" /\ stage = "single" /\ elided = 0
  /\ fname = <<>>
  /\ \E t \in SRRecordKinds, a \in RecAddrs, n \in RecLens, b \in BOOLEAN :
       \/ items = <<Item(t, a, n, b)>>
       \/ items = <<Item(t, a, n, b), Item("S9", 4863, 0, FALSE)>>
  /\ cut = 0
  /\ infile = FlattenSR(items)
  /\ pos = 0 /\ outfile = <<>>
  /\ rectype = 0 /\ datarecs = 0 /\ addrrecs = 0
  /\ pc = "loop" /\ status = "running"
  /\ FSIdle

\* Runs of sr2flex alone.
NextS2F == S2F_Loop \/ S2F_Report \/ S2F_Exit

SpecS2F == InitS2F /\ [][NextS2F]_vars

\* Runs of sr2flex over a single record.
SpecRec == InitRec /\ [][NextS2F]_vars

(***************************************************************************)
(* What the properties below are stated with.                              *)
(***************************************************************************)
\* The complete lines of a text, each without its line feed.
Lines(text) ==
  LET RECURSIVE Split(_, _, _)
      Split(i, cur, acc) ==
        IF i > Len(text) THEN acc
        ELSE IF text[i] = LF THEN Split(i + 1, <<>>, Append(acc, cur))
        ELSE Split(i + 1, Append(cur, text[i]), acc)
  IN  Split(1, <<>>, <<>>)

StartsWith(line, pre) == Len(line) >= Len(pre) /\ SubSeq(line, 1, Len(pre)) = pre

\* How many of the lines L begin with pre.
CountLines(L, pre) == Cardinality({i \in DOMAIN L : StartsWith(L[i], pre)})

\* The value of a hex digit, read strictly.
DigitVal(c) == IF c <= ch9 THEN c - ch0 ELSE c - chA + 10

AllHex(chars) == \A i \in DOMAIN chars : IsHexChar(chars[i])

RECURSIVE UnHex(_)
UnHex(chars) ==
  IF chars = <<>> THEN 0
  ELSE 16 * UnHex(SubSeq(chars, 1, Len(chars) - 1)) + DigitVal(chars[Len(chars)])

\* The bytes of an S-record line: the hex pairs after "S<type>".
LineBytes(line) ==
  [i \in 1..((Len(line) - 2) \div 2) |-> UnHex(SubSeq(line, 2 * i + 1, 2 * i + 2))]

\* An S-record line whose count, address, payload and checksum bytes add up
\* to 0xFF in the low byte.
SumsToFF(line) ==
  /\ Len(line) >= 4 /\ line[1] = chS
  /\ (Len(line) - 2) % 2 = 0
  /\ AllHex(SubSeq(line, 3, Len(line)))
  /\ SumSeq(LineBytes(line)) % 256 = 255

SRFillerKinds == {"nul", "cr", "lf"}

\* Where item k of an S-record input starts, and the position after the
\* last checksum digit of record item k (its line feed not yet read).
SRStart(k) == Len(FlattenSR(SubSeq(items, 1, k - 1)))

SREnd(k) == SRStart(k) + Len(EncodeSR(items[k])) - 1

\* Everything before item k is filler or a supported record with a right
\* checksum, so that sr2flex reaches item k at a record start.
SRInSync(k) ==
  \A j \in 1..(k - 1) :
    items[j].k \in SRFillerKinds \/ (items[j].k \in SRRecordKinds /\ ~items[j].bad)

\* sr2flex has read record item k, whose checksum byte is wrong.
ReadBad(k) ==
  /\ prog = "sr2flex" /\ stage = "single"
  /\ items[k].k \in SRRecordKinds /\ items[k].bad
  /\ SRInSync(k)
  /\ pos > SRStart(k)

(***************************************************************************)
(* C1: sr2flex, on reading a record of type 0, 1, 5 or 9 whose checksum    *)
(* byte does not bring the sum of the record's bytes to 0xFF, returns 'C'  *)
(* from record(), leaves the loop without reading any further, and exits   *)
(* with failure.                                                           *)
(***************************************************************************)
C1_ChecksumError ==
  \A k \in DOMAIN items :
    ReadBad(k) =>
      /\ rectype = chC
      /\ pc \in {"after", "done"}
      /\ pos = SREnd(k)
      /\ pc = "done" => status = "EXIT_FAILURE"

(***************************************************************************)
(* C2: sr2flex writes nothing for a record that fails its checksum: after  *)
(* an S1 record with payload, or an S9 record with a non-zero address,     *)
(* whose checksum byte is wrong, the output file holds what the records    *)
(* before it produced and nothing else.                                    *)
(***************************************************************************)
C2_NothingWritten ==
  \A k \in DOMAIN items :
    (ReadBad(k) /\ items[k].k \in {"S1", "S9"}) =>
      outfile = S2F_main(FlattenSR(SubSeq(items, 1, k - 1))).out

\* A FLEX input made of whole Data and TransferAddress records and padding.
ValidFlex == cut = 0 /\ \A i \in DOMAIN items : items[i].k \in {"pad", "data", "xfer"}

IsFlexRecord(it) == it.k \in {"data", "xfer"}

\* The records that sr2flex writes again: it skips an S1 line without
\* payload and an S9 line with address 0000.
IsKept(it) == (it.k = "data" /\ it.len > 0) \/ (it.k = "xfer" /\ it.addr # 0)

C4_Terminates == pc # "spin"

\* The S-record lines that flex2sr has written.
OutLines == Lines(outfile)

\* "S1", "S5", "S9"
PreS1 == <<chS, ch1>>

PreS5 == <<chS, ch5>>

PreS9 == <<chS, ch9>>

\* flex2sr has returned from main after a clean end of input.
F2SCleanEnd == prog = "flex2sr" /\ pc = "done" /\ rectype = EOF

\* The lines from the second one up to, not including, the S5 line.
BeforeS5(L) ==
  LET s5 == CHOOSE i \in DOMAIN L : StartsWith(L[i], PreS5)
  IN  SubSeq(L, 2, s5 - 1)

HasXfer == \E i \in DOMAIN items : items[i].k = "xfer"

(***************************************************************************)
(* C5: flex2sr's trailer.  After a clean end of input the output holds     *)
(* exactly one S5 line; if no S9 line was written for a TransferAddress    *)
(* record before it, the output ends with the S5 line followed by the      *)
(* default S9030000FC, and otherwise the S5 line is the last line.  For an *)
(* input of whole records, an S9 line was written before the S5 line       *)
(* exactly when the input holds a TransferAddress record.                  *)
(***************************************************************************)
C5_TrailerPolicy ==
  F2SCleanEnd =>
    LET L == OutLines
        n == Len(L)
    IN  /\ CountLines(L, PreS5) = 1
        /\ addrrecs = CountLines(BeforeS5(L), PreS9)
        /\ IF CountLines(BeforeS5(L), PreS9) = 0
             THEN /\ n >= 3
                  /\ StartsWith(L[n - 1], PreS5)
                  /\ L[n] = SubSeq(F2S_nullstart, 1, 10)
             ELSE StartsWith(L[n], PreS5)
        /\ cut = 0 => (HasXfer <=> CountLines(BeforeS5(L), PreS9) > 0)

\* A clean run over Data records and padding only, and the default record.
C5_Witness ==
  /\ F2SCleanEnd /\ cut = 0 /\ ~HasXfer
  /\ \E i \in DOMAIN items : items[i].k = "data"
  /\ OutLines[Len(OutLines)] = <<chS, ch9, ch0, 51, ch0, ch0, ch0, ch0, chF, chC>>

NumData == Cardinality({i \in DOMAIN items : items[i].k = "data"})

(***************************************************************************)
(* C6: flex2sr's data count.  At every point of a run datarecs equals the  *)
(* number of S1 lines written so far; after a clean end of input the       *)
(* output holds exactly one S5 line, S503 followed by four hex digits and  *)
(* a checksum, and the four digits are the number of S1 lines written in   *)
(* the run, which for an input of whole records is the number of its Data  *)
(* records (zero included), whatever TransferAddress records and padding   *)
(* it holds; a run that ends otherwise writes no S5 line.                  *)
(***************************************************************************)
C6_DataCount ==
  prog = "flex2sr" =>
    LET L == OutLines
        s1 == elided + CountLines(L, PreS1)
        s5 == CHOOSE i \in DOMAIN L : StartsWith(L[i], PreS5)
    IN  /\ datarecs = s1
        /\ F2SCleanEnd =>
             /\ CountLines(L, PreS5) = 1
             /\ Len(L[s5]) = 10
             /\ SubSeq(L[s5], 1, 4) = <<chS, ch5, ch0, 51>>
             /\ AllHex(SubSeq(L[s5], 5, 8))
             /\ UnHex(SubSeq(L[s5], 5, 8)) = s1
             /\ cut = 0 => s1 = elided + NumData
        /\ (pc = "done" /\ rectype # EOF) => CountLines(L, PreS5) = 0

(***************************************************************************)
(* C7: every line flex2sr writes (S0, S1, S9, S5, the default S9) is a     *)
(* record whose checksum byte is the one's complement of the low byte of   *)
(* the sum of its count, address and payload bytes: all the bytes of the   *)
(* line, checksum included, add up to 0xFF modulo 256.                     *)
(***************************************************************************)
C7_ChecksumLaw ==
  prog = "flex2sr" => \A i \in DOMAIN OutLines : SumsToFF(OutLines[i])

\* Where the first byte 0x7F of the input is, as an item and as a position.
IsUnk(i) == items[i].k = "unk"

FirstUnk == CHOOSE i \in DOMAIN items : IsUnk(i) /\ \A j \in 1..(i - 1) : ~IsUnk(j)

BeforeUnk == FlattenFlex(SubSeq(items, 1, FirstUnk - 1))

\* The input holds a byte 0x7F that was not cut off.
MeetsUnk == (\E i \in DOMAIN items : IsUnk(i)) /\ Len(BeforeUnk) < Len(infile)

(***************************************************************************)
(* C9: flex2sr and an unknown record type.  When record() meets a type     *)
(* byte other than 0x00, 0x02 and 0x16, whatever records came before it,   *)
(* main leaves the loop with that byte in rectype and nothing read after   *)
(* it, and returns EXIT_FAILURE; the output then holds the header and one  *)
(* line for each record before that byte, exactly what a run over the      *)
(* input before that byte writes ahead of its trailer, and so neither an   *)
(* S5 line nor a default S9 line.  A run ends like this exactly when its   *)
(* input holds such a byte.                                                *)
(***************************************************************************)
C9_UnknownType ==
  (prog = "flex2sr" /\ stage = "single" /\ pc \in {"after", "done"}) =>
    /\ MeetsUnk <=> rectype # EOF
    /\ rectype # EOF =>
         /\ rectype \notin {0, FLEX_DATA, FLEX_XFER}
         /\ infile[pos] = rectype
         /\ pos = Len(BeforeUnk) + 1
         /\ outfile \o F2S_trailer(datarecs, addrrecs) = F2S_main(fname, BeforeUnk).out
         /\ CountLines(OutLines, PreS5) = 0
         /\ CountLines(OutLines, PreS9) = addrrecs
         /\ Len(OutLines) = 1 + datarecs + addrrecs
         /\ pc = "done" => status = "EXIT_FAILURE"

\* A run that ended at a byte 0x7F after a Data and a TransferAddress record.
C9_Witness ==
  /\ prog = "flex2sr" /\ stage = "single" /\ pc = "done"
  /\ rectype = 127 /\ status = "EXIT_FAILURE"
  /\ datarecs = 1 /\ addrrecs = 1

\* The bytes of f from position p on are whole Data and TransferAddress
\* records and 0x00 bytes.
RECURSIVE WellFormedFlex(_, _)
WellFormedFlex(f, p) ==
  IF p >= Len(f) THEN TRUE
  ELSE IF f[p + 1] = 0 THEN WellFormedFlex(f, p + 1)
  ELSE IF f[p + 1] = FLEX_XFER THEN p + 3 <= Len(f) /\ WellFormedFlex(f, p + 3)
  ELSE IF f[p + 1] = FLEX_DATA
    THEN /\ p + 4 <= Len(f)
         /\ p + 4 + f[p + 4] <= Len(f)
         /\ WellFormedFlex(f, p + 4 + f[p + 4])
  ELSE FALSE

\* An S-record input of filler and whole S0, S1, S5 and S9 lines with the
\* right checksum.
WellFormedSR ==
  \A i \in DOMAIN items :
    items[i].k \in SRFillerKinds \/ (items[i].k \in SRRecordKinds /\ ~items[i].bad)

(***************************************************************************)
(* C10: a run of a converter returns EXIT_SUCCESS only when its input is   *)
(* made of whole, valid records and filler and nothing else: an input that *)
(* ends inside a record, or holds a framing, type or checksum error, ends  *)
(* with EXIT_FAILURE.                                                      *)
(***************************************************************************)
C10_SuccessOnlyIfClean ==
  (stage = "single" /\ pc = "done" /\ status = "EXIT_SUCCESS") =>
    IF prog = "flex2sr" THEN WellFormedFlex(infile, 0) ELSE WellFormedSR

NotPad(it) == it.k # "pad"

NotFiller(it) == it.k \notin SRFillerKinds

\* The lines of the record items among its, one after the other with
\* nothing between them, no line feed either.
RECURSIVE FlattenBare(_)
FlattenBare(its) ==
  IF its = <<>> THEN <<>>
  ELSE LET line == EncodeSR(Head(its))
       IN  SubSeq(line, 1, Len(line) - 1) \o FlattenBare(Tail(its))

\* An S-record input of whole records (of any type, with any checksum) and
\* filler.
WholeSR == \A i \in DOMAIN items : items[i].k \in SRFillerKinds \cup DOMAIN SRTypes

(***************************************************************************)
(* C8: filler between whole records changes nothing.  A run of flex2sr     *)
(* over an input of whole records and 0x00 bytes, wherever those stand,    *)
(* ends with the output and the exit status of the run over the same       *)
(* records with no 0x00 byte between them; a run of sr2flex over whole     *)
(* S-record lines with NUL, CR and LF characters before, between and after *)
(* them ends, and with the output and the exit status of the run over the  *)
(* same lines with nothing between them.                                   *)
(***************************************************************************)
C8_PaddingSkip ==
  /\ (prog = "flex2sr" /\ stage = "single" /\ cut = 0 /\ pc = "done") =>
       LET bare == F2S_main(fname, FlattenFlex(SelectSeq(items, NotPad)))
       IN  outfile = bare.out /\ status = bare.status
  /\ (prog = "sr2flex" /\ stage = "single" /\ WholeSR) =>
       /\ pc # "spin"
       /\ pc = "done" =>
            LET bare == S2F_main(FlattenBare(SelectSeq(items, NotFiller)))
            IN  outfile = bare.out /\ status = bare.status

\* A run of flex2sr over a Data record, a 0x00 byte and another record, and
\* a run of sr2flex over two records with filler between them.
C8_Witness ==
  /\ stage = "single" /\ pc = "done" /\ status = "EXIT_SUCCESS" /\ cut = 0
  /\ Len(items) = 3 /\ outfile # <<>>
  /\ items[1].k = "data" /\ items[1].len > 0
  /\ items[2].k = "pad"
  /\ items[3].k \in {"data", "xfer"}

\* "S0"
PreS0 == <<chS, ch0>>

\* The items of a FLEX input before its first byte 0x7F.
UptoUnk == IF \E i \in DOMAIN items : IsUnk(i) THEN SubSeq(items, 1, FirstUnk - 1) ELSE items

\* The S-record line, line feed included, that stands for a FLEX record.
LineOf(it) == IF it.k = "data" THEN SRLine("S1", it) ELSE SRLine("S9", it)

(***************************************************************************)
(* C11: the shape of flex2sr's output.  Nothing is written before the      *)
(* header; from then on the output begins with the one S0 line of the      *)
(* file name, followed by one S1 or S9 line for each Data or               *)
(* TransferAddress record read so far, in the order of the input (for an   *)
(* input of whole records: the very line of that record, and at the end    *)
(* of the run a line for every record before the first unknown type        *)
(* byte); after these lines comes nothing, except at the end of a run      *)
(* that met a clean end of input, where an S5 line and, when no            *)
(* TransferAddress record was read, the default S9 line follow.            *)
(***************************************************************************)
C11_StreamShape ==
  (prog = "flex2sr" /\ stage = "single") =>
    LET recs == SelectSeq(UptoUnk, IsFlexRecord)
        n == datarecs + addrrecs
        L == OutLines
        tail == SubSeq(L, n + 2, Len(L))
    IN  /\ pc = "header" => outfile = <<>>
        /\ pc # "header" =>
             /\ Len(L) >= 1 + n
             /\ L[1] \o <<LF>> = header(fname)
             /\ CountLines(L, PreS0) = 1
             /\ n <= Len(recs)
             /\ \A j \in 1..n :
                  StartsWith(L[j + 1], IF recs[j].k = "data" THEN PreS1 ELSE PreS9)
             /\ cut = 0 => \A j \in 1..n : L[j + 1] \o <<LF>> = LineOf(recs[j])
             /\ (cut = 0 /\ pc \in {"after", "done"}) => n = Len(recs)
             /\ IF pc = "done" /\ rectype = EOF
                  THEN /\ Len(tail) = IF addrrecs = 0 THEN 2 ELSE 1
                       /\ StartsWith(tail[1], PreS5)
                       /\ addrrecs = 0 => tail[2] \o <<LF>> = F2S_nullstart
                  ELSE tail = <<>>

\* The end of a run over a Data, a TransferAddress and another Data record.
C11_Witness ==
  /\ prog = "flex2sr" /\ stage = "single" /\ pc = "done" /\ cut = 0
  /\ rectype = EOF /\ datarecs = 2 /\ addrrecs = 1
  /\ Len(OutLines) = 5

\* flex2sr has just read the Data record that is the first item of a whole
\* input, and nothing else.
ReadFirstData ==
  /\ prog = "flex2sr" /\ stage = "single" /\ cut = 0
  /\ pc = "loop" /\ datarecs + addrrecs = 1
  /\ items # <<>> /\ items[1].k = "data"

(***************************************************************************)
(* C12: the line flex2sr writes for a Data record with address A and       *)
(* length byte L, for every L from 0 to 255: S1, two hex digits that read  *)
(* L+3, A in four hex digits, the L payload bytes in two hex digits each   *)
(* and in the order of the input, two hex digits of checksum, and the line *)
(* feed; so the count field is the number of bytes that follow it on the   *)
(* line.                                                                   *)
(***************************************************************************)
C12_DataEncoding ==
  ReadFirstData =>
    LET n == items[1].len
        line == SubSeq(outfile, Len(header(fname)) + 1, Len(outfile))
    IN  /\ Len(line) = 2 + 2 + 4 + 2 * n + 2 + 1
        /\ SubSeq(line, 1, 2) = PreS1
        /\ AllHex(SubSeq(line, 3, 4))
        /\ UnHex(SubSeq(line, 3, 4)) = n + 3
        /\ SubSeq(line, 5, 8) = FmtX(items[1].addr, 4)
        /\ \A i \in 1..n : SubSeq(line, 7 + 2 * i, 8 + 2 * i) = FmtX(Pattern(n)[i], 2)
        /\ AllHex(SubSeq(line, 9 + 2 * n, 10 + 2 * n))
        /\ line[Len(line)] = LF
        /\ UnHex(SubSeq(line, 3, 4)) = (Len(line) - 5) \div 2

\* sr2flex has read the first item of its input, a line of kind k with the
\* right checksum and a count byte of 3 or more.
ReadFirst(k) ==
  /\ prog = "sr2flex" /\ stage = "single"
  /\ items # <<>> /\ items[1].k = k /\ ~items[1].bad /\ items[1].len >= 0
  /\ pos > 0

\* The FLEX Data record of an S1 line.
DataOf(it) == <<FLEX_DATA, HiByte(it.addr), LoByte(it.addr), it.len>> \o Pattern(it.len)

(***************************************************************************)
(* C13: sr2flex and S1 records.  Reading an S1 line with count byte n > 3, *)
(* address A and payload p1..p(n-3), record() reads up to the end of the   *)
(* checksum, writes the bytes 0x02, high byte of A, low byte of A, n-3,    *)
(* p1, ..., p(n-3) and nothing else, and returns '1'; for n = 3 it writes  *)
(* nothing and returns '1'; in both cases main's loop goes on with the     *)
(* next record.                                                            *)
(***************************************************************************)
C13_DataTranslation ==
  ReadFirst("S1") =>
    LET want == IF items[1].len = 0 THEN <<>> ELSE DataOf(items[1])
    IN  /\ pos >= SREnd(1)
        /\ Len(outfile) >= Len(want)
        /\ SubSeq(outfile, 1, Len(want)) = want
        /\ pos = SREnd(1) => outfile = want /\ rectype = ch1 /\ pc = "loop"

\* An S1 line with the longest payload has been read, and the record after it.
C13_Witness ==
  /\ ReadFirst("S1") /\ items[1].len = 252 /\ items[1].addr = 4863
  /\ Len(items) = 2 /\ pc = "done" /\ status = "EXIT_SUCCESS"
  /\ Len(outfile) = 4 + 252 + 3

\* The bytes of out from position p on are TransferAddress records and Data
\* records whose length byte is between 1 and 252 and is followed by that
\* many payload bytes.
RECURSIVE DeclaredLengths(_, _)
DeclaredLengths(out, p) ==
  IF p >= Len(out) THEN TRUE
  ELSE IF out[p + 1] = FLEX_XFER THEN p + 3 <= Len(out) /\ DeclaredLengths(out, p + 3)
  ELSE /\ out[p + 1] = FLEX_DATA
       /\ p + 4 <= Len(out)
       /\ out[p + 4] >= 1 /\ out[p + 4] <= 252
       /\ p + 4 + out[p + 4] <= Len(out)
       /\ DeclaredLengths(out, p + 4 + out[p + 4])

(***************************************************************************)
(* C14: what sr2flex writes is, at every point of a run and whatever count *)
(* bytes (0..255, those below 3 included) the S1 lines it read carry, a    *)
(* sequence of FLEX records in which every Data record has a length byte   *)
(* between 1 and 252 and exactly that many payload bytes after it.         *)
(***************************************************************************)
C14_DeclaredLength ==
  (prog = "sr2flex" /\ stage = "single") => DeclaredLengths(outfile, 0)

\* sr2flex has read the first item of its input, an S9 line.
ReadFirstS9 ==
  /\ prog = "sr2flex" /\ stage = "single"
  /\ items # <<>> /\ items[1].k = "S9"
  /\ pos > 0

\* What the well-formed S9 line that ends some inputs is written as.
LastXfer == <<FLEX_XFER, 18, 255>>

(***************************************************************************)
(* C15: sr2flex and S9 records.  For an S9 line whose address reads 0x0000 *)
(* record() writes nothing; for one with any other address A it writes     *)
(* the three bytes 0x16, high byte of A, low byte of A and nothing else.   *)
(* After a well-formed S9 line (count 03, right checksum) record() has     *)
(* read up to the end of the checksum and returned '9', and main's loop    *)
(* goes on with the next record.                                           *)
(***************************************************************************)
C15_TransferTranslation ==
  ReadFirstS9 =>
    LET A == items[1].addr
        want == IF A = 0 THEN <<>> ELSE <<FLEX_XFER, HiByte(A), LoByte(A)>>
    IN  /\ Len(outfile) >= Len(want)
        /\ SubSeq(outfile, 1, Len(want)) = want
        /\ outfile \in {want, want \o LastXfer}
        /\ ReadFirst("S9") /\ items[1].len = 0 =>
             /\ pos >= SREnd(1)
             /\ pos = SREnd(1) => outfile = want /\ rectype = ch9 /\ pc = "loop"
             /\ pc = "done" =>
                  /\ status = "EXIT_SUCCESS"
                  /\ outfile = IF Len(items) = 2 THEN want \o LastXfer ELSE want

\* The end of a run over an S9 line with address 0000 and a second S9 line,
\* and of a run over an S9 line with address 00FF.
C15_Witness ==
  /\ ReadFirst("S9") /\ items[1].len = 0 /\ pc = "done"
  /\ \/ items[1].addr = 0 /\ Len(items) = 2 /\ outfile = LastXfer
     \/ items[1].addr = 255 /\ Len(items) = 1 /\ outfile = <<FLEX_XFER, 0, 255>>

(***************************************************************************)
(* C16: sr2flex and S0 and S5 records.  Reading a well-formed S0 or S5     *)
(* line (count byte 3 or more, that many bytes on the line, right          *)
(* checksum), record() reads all of it, payload and checksum included,     *)
(* writes nothing and returns its type, and main's loop goes on with the   *)
(* next record: the output of the run is what the records after it write.  *)
(***************************************************************************)
C16_HeaderCountSilent ==
  (ReadFirst("S0") \/ ReadFirst("S5")) =>
    /\ pos >= SREnd(1)
    /\ pos = SREnd(1) =>
         outfile = <<>> /\ rectype = SRTypes[items[1].k] /\ pc = "loop"
    /\ outfile \in {<<>>, LastXfer}
    /\ pc # "spin"
    /\ pc = "done" =>
         /\ status = "EXIT_SUCCESS"
         /\ outfile = IF Len(items) = 2 THEN LastXfer ELSE <<>>

\* The end of a run over an S0 line with the longest payload and an S9 line.
C16_Witness ==
  /\ ReadFirst("S0") /\ items[1].len = 252
  /\ Len(items) = 2 /\ pc = "done" /\ outfile = LastXfer

\* Item k of an S-record input begins with 'S' and the character after it,
\* the record type that record() reads, is none of '0', '1', '5', '9'.
BadType(k) ==
  /\ EncodeSR(items[k])[1] = chS
  /\ SRStart(k) + 2 <= Len(infile)
  /\ infile[SRStart(k) + 2] \notin {ch0, ch1, ch5, ch9}

\* main has left the loop with rectype = rt and fails; the output is what
\* the items before item k gave.
StoppedAt(k, rt) ==
  /\ rectype = rt
  /\ pc \in {"after", "done"}
  /\ outfile = S2F_main(FlattenSR(SubSeq(items, 1, k - 1))).out
  /\ pc = "done" => status = "EXIT_FAILURE"

(***************************************************************************)
(* C17: sr2flex, framing and type errors.  Where a record is to start, a   *)
(* character other than NUL, CR, LF and 'S' makes record() return 'S'      *)
(* with nothing read after that character; after an 'S', a type character  *)
(* other than '0', '1', '5' and '9' makes it return 'R'.  In both cases    *)
(* nothing is written for that record, main leaves the loop at once and    *)
(* returns EXIT_FAILURE.                                                   *)
(***************************************************************************)
C17_FramingAndType ==
  \A k \in DOMAIN items :
    (prog = "sr2flex" /\ stage = "single" /\ SRInSync(k) /\ pos > SRStart(k)) =>
      /\ items[k].k = "junk" => StoppedAt(k, chS) /\ pos = SRStart(k) + 1
      /\ BadType(k) => StoppedAt(k, chR)

(***************************************************************************)
(* mkflexfs: the blank disk image, one sector of 256 bytes after the       *)
(* other.  A run is taken up where the options have been read and          *)
(* accepted and the output file is open; one step per call of outsector(). *)
(***************************************************************************)
\* if (tracks < 2) usage(argv[0]);
MinTracks == 2

\* if (sectors < 5) usage(argv[0]);
MinSectors == 5

\* for (i = 0; i < n; i++) fputc(0, outfile);
Zeroes(n) == [i \in 1..n |-> 0]

\* fputc(x, outfile): the int x is written as an unsigned char.
Byte(x) == x % 256

\* void outblank(int ltrk, int lsect)
outblank(ltrk, lsect) == <<Byte(ltrk), Byte(lsect)>> \o Zeroes(254)

\* void outsir(void); date is what the clock gives for
\* <<tm_mon + 1, tm_mday, tm_year % 100>>.
outsir(date) ==
  Zeroes(16)
    \o volname \o Zeroes(11 - Len(volname))
    \o <<Byte(Shr8(volnum)), Byte(volnum)>>
    \o <<1, 1, Byte(tracks - 1), Byte(sectors)>>
    \o <<Byte(Shr8((tracks - 1) * sectors)), Byte((tracks - 1) * sectors)>>
    \o <<Byte(date[1]), Byte(date[2]), Byte(date[3])>>
    \o <<Byte(tracks - 1), Byte(sectors)>>
    \o Zeroes(216)

\* outsector without its end-of-track case.
outsector_nowrap(track, sector, date) ==
  IF track = 0 /\ sector = 3 THEN outsir(date)
  ELSE IF track = 0 /\ sector >= 5 /\ sector < sectors THEN outblank(track, sector + 1)
  ELSE IF track = 0 THEN outblank(0, 0)
  ELSE IF track = tracks - 1 /\ sector = sectors THEN outblank(0, 0)
  ELSE outblank(track, sector + 1)

\* void outsector(int track, int sector), with the date outsir() reads.
outsector(track, sector, date) ==
  IF track = 0 /\ sector = 3 THEN outsir(date)
  ELSE IF track = 0 /\ sector >= 5 /\ sector < sectors THEN outblank(track, sector + 1)
  ELSE IF track = 0 THEN outblank(0, 0)
  ELSE IF track = tracks - 1 /\ sector = sectors THEN outblank(0, 0)
  ELSE IF sector = sectors THEN outblank(track + 1, 1)
  ELSE outblank(track, sector + 1)

\* Dates the clock may give: 01/01/00 and 12/31/99.
Dates == {<<1, 1, 0>>, <<12, 31, 99>>}

\* Volume names: none, and "FLEXVOLUME1".
VolNames == {<<>>, <<70, 76, 69, 88, 86, 79, 76, 85, 77, 69, 49>>}

VolNums == {0, 258}

\* main() of mkflexfs after the options and the fopen, for an accepted
\* geometry.
InitFS ==
  /\ prog = "mkflexfs" /\ stage = "single" /\ elided = 0
  /\ fname = <<>> /\ items = <<>> /\ cut = 0 /\ infile = <<>>
  /\ pos = 0 /\ outfile = <<>>
  /\ rectype = 0 /\ datarecs = 0 /\ addrrecs = 0
  /\ pc = "sectors" /\ status = "running"
  /\ tracks \in MinTracks..MaxTracks
  /\ sectors \in MinSectors..MaxSectors
  /\ volnum \in VolNums
  /\ volname \in VolNames
  /\ trk = 0 /\ sec = 1

\* One call  outsector(trk, sec)  and the step of the two for loops.
MK_Sector ==
  /\ prog = "mkflexfs" /\ pc = "sectors"
  /\ trk < tracks
  /\ \E date \in Dates : outfile' = outfile \o outsector(trk, sec, date)
  /\ IF sec < sectors THEN sec' = sec + 1 /\ trk' = trk
     ELSE IF trk + 1 < tracks THEN sec' = 1 /\ trk' = trk + 1
     ELSE sec' = sec + 1 /\ trk' = trk + 1
  /\ UNCHANGED <<prog, stage, elided, fname, items, cut, infile, pos, rectype,
                 datarecs, addrrecs, pc, status, tracks, sectors, volnum, volname>>

\* if (outfile != stdout) fclose(outfile); return EXIT_SUCCESS;
MK_Exit ==
  /\ prog = "mkflexfs" /\ pc = "sectors"
  /\ trk = tracks
  /\ pc' = "done"
  /\ status' = "EXIT_SUCCESS"
  /\ UNCHANGED <<fsvars, prog, stage, elided, fname, items, cut, infile, pos, outfile,
                 rectype, datarecs, addrrecs>>

NextFS == MK_Sector \/ MK_Exit

SpecFS == InitFS /\ [][NextFS]_vars

\* The two link bytes of sector s of track t in the image.
Link(t, s) ==
  LET at == (t * sectors + (s - 1)) * 256
  IN  <<outfile[at + 1], outfile[at + 2]>>

\* The sectors met from sector s of track t on by following the links, up
\* to the sector that carries the link (0,0) or lies outside the image.
RECURSIVE Chain(_, _, _)
Chain(t, s, fuel) ==
  IF fuel = 0 THEN <<>>
  ELSE IF t < 0 \/ t >= tracks \/ s < 1 \/ s > sectors THEN <<<<t, s>>>>
  ELSE IF Link(t, s) = <<0, 0>> THEN <<<<t, s>>>>
  ELSE <<<<t, s>>>> \o Chain(Link(t, s)[1], Link(t, s)[2], fuel - 1)

\* The System Information Record: sector 3 of track 0.
SIR == SubSeq(outfile, 2 * 256 + 1, 3 * 256)

(***************************************************************************)
(* C18: the sector chains of the image mkflexfs writes for tracks >= 2     *)
(* and sectors >= 5.  The links from sector 1 of track 1 on lead through   *)
(* every sector of the tracks 1..tracks-1 once, in ascending order, to     *)
(* sector `sectors` of track tracks-1, which carries the link (0,0); the   *)
(* chain has (tracks-1)*sectors sectors, and its first sector, its last    *)
(* sector and its length are what the System Information Record holds as   *)
(* start, end and size of the free chain.  On track 0 the links lead from  *)
(* sector 5 through every sector up to sector `sectors`, which carries     *)
(* (0,0), and the sectors 1, 2 and 4 carry (0,0).                          *)
(***************************************************************************)
C18_SectorChains ==
  (prog = "mkflexfs" /\ pc = "done") =>
    LET free == Chain(1, 1, tracks * sectors + 1)
        dir == Chain(0, 5, tracks * sectors + 1)
        n == (tracks - 1) * sectors
    IN  /\ status = "EXIT_SUCCESS"
        /\ Len(outfile) = tracks * sectors * 256
        /\ free = [i \in 1..n |-> <<1 + ((i - 1) \div sectors), 1 + ((i - 1) % sectors)>>]
        /\ free[n] = <<tracks - 1, sectors>>
        /\ Link(tracks - 1, sectors) = <<0, 0>>
        /\ <<SIR[30], SIR[31]>> = free[1]
        /\ <<SIR[32], SIR[33]>> = free[n]
        /\ SIR[34] * 256 + SIR[35] = Len(free)
        /\ dir = [i \in 1..(sectors - 4) |-> <<0, i + 4>>]
        /\ Link(0, sectors) = <<0, 0>>
        /\ \A s \in {1, 2, 4} : Link(0, s) = <<0, 0>>

\* A finished image of more than two tracks and more than five sectors.
C18_Witness ==
  /\ prog = "mkflexfs" /\ pc = "done"
  /\ tracks > MinTracks /\ sectors > MinSectors
  /\ Len(outfile) = tracks * sectors * 256
  /\ Len(Chain(1, 1, tracks * sectors + 1)) = (tracks - 1) * sectors

=============================================================================
